---- MODULE Spec2Model ----
(***************************************************************************)
(* A model of memscanner.py: an interactive scanner/patcher of a live      *)
(* process's memory through /proc/<pid>/maps and /proc/<pid>/mem.          *)
(*                                                                         *)
(* Python integers are unbounded while TLC's are 32 bits wide, so a Python *)
(* int is carried as two limbs <<hi, lo>> standing for hi * 2^16 + lo with *)
(* 0 <= lo < 2^16.  The target's memory is kept sparsely, as the map of its *)
(* non-zero bytes, and so are the bytes read from it: [len, nz] is a bytes  *)
(* object of length len whose non-zero bytes are nz[i] at Python index i.   *)
(* An encoded value is a sequence of four numbers 0..255.                   *)
(***************************************************************************)
EXTENDS Integers, Sequences, FiniteSets, TLC

VARIABLES
    pages,        \* target: page number -> its permission string, or Unmapped
    mem,          \* target: address -> byte, for the non-zero bytes only
    alive,        \* target: /proc/<pid> exists
    readFault,    \* platform: a read at an unmapped address "raise"s or is "empty"
    pc,           \* main(): "start", "menu", "modify", "freeze", "refresh", or how it
                  \* ended: "quit", "exit1" (sys.exit(1)), "crash" (uncaught exception)
    initial_val,  \* main(): the value shown as "Current value focus"
    candidates,   \* main(): the candidate addresses
    regions,      \* main(): the region list of the last refresh_regions()
    lastOp,       \* history: the step taken last, [op, val, addr, arg, rep]
    validated,    \* history: the value the candidates were last scanned/refined against
    warned,       \* history: validate_integer printed its range warning for the last input
    mod,          \* modify_memory(): its locals
    fz,           \* freeze_memory(): its locals
    tasks,        \* freeze_address(): one record per thread
    budget        \* the steps the target, and the freezes the operator, may still take

vars == <<pages, mem, alive, readFault, pc, initial_val, candidates, regions,
          lastOp, validated, warned, mod, fz, tasks, budget>>

targetVars  == <<pages, mem, alive, readFault>>
sessionVars == <<pc, initial_val, candidates, regions, validated, warned>>

-----------------------------------------------------------------------------
(* Values and their encoding *)

Limb == 2 ^ 16

IntVal(hi, lo) == <<hi, lo>>

\* -2**31 <= val < 2**31
InInt32(val) == -(2 ^ 15) <= val[1] /\ val[1] < 2 ^ 15

\* struct.pack("i", val): four bytes, little-endian two's complement; raises
\* struct.error for a value outside the format's range.
struct_pack(val) ==
    IF InInt32(val)
    THEN [ok |-> TRUE,
          bytes |-> << val[2] % 256, (val[2] \div 256) % 256,
                       val[1] % 256, (val[1] \div 256) % 256 >>]
    ELSE [ok |-> FALSE, bytes |-> <<>>]

\* What the operator types: a numeral, or text that int() rejects.
Numeral(val) == [kind |-> "int", val |-> val]
NotANumeral  == [kind |-> "text", val |-> IntVal(0, 0)]

\* validate_integer(value): the int, with a warning when it is out of range;
\* sys.exit(1) on text that is no integer.
validate_integer(value) ==
    IF value.kind = "int"
    THEN [ok |-> TRUE, val |-> value.val, warning |-> ~InInt32(value.val)]
    ELSE [ok |-> FALSE, val |-> value.val, warning |-> FALSE]

-----------------------------------------------------------------------------
(* The target process: its pages and its memory *)

PermRW == <<"r", "w", "-", "p">>
PermRO == <<"r", "-", "-", "p">>
PermWO == <<"-", "w", "-", "p">>
Unmapped == <<>>

\* The pages the target ever maps: 0x1000..0x3fff and 0x5000..0x5fff.
TargetPages == {1, 2, 3, 5}

\* A page's start address as /proc/<pid>/maps prints it: p000 in hex.
PageHex(p) == <<p, 0, 0, 0>>

RECURSIVE int16(_)
\* int(s, 16)
int16(s) ==
    IF s = <<>> THEN 0 ELSE int16(SubSeq(s, 1, Len(s) - 1)) * 16 + s[Len(s)]

PageStart(p) == int16(PageHex(p))
PageOf(a) == CHOOSE p \in 0..16 : PageStart(p) <= a /\ a < PageStart(p + 1)
Mapped(p) == p \in TargetPages /\ pages[p] # Unmapped

ByteAt(a) == IF a \in DOMAIN mem THEN mem[a] ELSE 0

Min(a, b) == IF a <= b THEN a ELSE b

-----------------------------------------------------------------------------
(* /proc/<pid>/maps and parse_maps *)

\* The first page after the run of pages that starts at p with p's permissions.
RECURSIVE RunEnd(_, _, _)
RunEnd(pg, p, q) ==
    IF q \in TargetPages /\ pg[q] = pg[p] THEN RunEnd(pg, p, q + 1) ELSE q

\* The lines of /proc/<pid>/maps from page p on for the address space pg, in
\* ascending address order: one line per run of adjacent pages with the same
\* permissions.
RECURSIVE MapsFrom(_, _)
MapsFrom(pg, p) ==
    IF p > 15 THEN <<>>
    ELSE IF p \notin TargetPages \/ pg[p] = Unmapped THEN MapsFrom(pg, p + 1)
    ELSE LET q == RunEnd(pg, p, p + 1)
         IN  <<[start_str |-> PageHex(p), end_str |-> PageHex(q), perms |-> pg[p]]>>
             \o MapsFrom(pg, q)

MapsFile == MapsFrom(pages, 0)

HasFlag(c, perms) == \E i \in DOMAIN perms : perms[i] = c

RECURSIVE ReadableLines(_)
\* parse_maps's loop: the (start, end, perms) of every line with 'r' in perms.
ReadableLines(lines) ==
    IF lines = <<>> THEN <<>>
    ELSE LET line == Head(lines)
         IN  IF ~HasFlag("r", line.perms) THEN ReadableLines(Tail(lines))
             ELSE <<[start |-> int16(line.start_str), end |-> int16(line.end_str),
                     perms |-> line.perms]>> \o ReadableLines(Tail(lines))

\* parse_maps(pid): sys.exit(1) when the maps file cannot be opened.
parse_maps ==
    IF alive THEN [ok |-> TRUE, regions |-> ReadableLines(MapsFile)]
    ELSE [ok |-> FALSE, regions |-> <<>>]

\* refresh_regions(): the same, after its own existence check.
refresh_regions == IF alive THEN parse_maps ELSE [ok |-> FALSE, regions |-> <<>>]

-----------------------------------------------------------------------------
(* /proc/<pid>/mem *)

\* How many of the n bytes from pos on lie in mapped pages, without a gap.
RECURSIVE ReadableLen(_, _)
ReadableLen(pos, n) ==
    IF n = 0 \/ ~Mapped(PageOf(pos)) THEN 0
    ELSE LET inPage == Min(n, PageStart(PageOf(pos) + 1) - pos)
         IN  inPage + ReadableLen(pos + inPage, n - inPage)

\* The bytes object holding the len bytes of memory from pos on.
BytesOfMem(pos, len) ==
    [len |-> len,
     nz  |-> [i \in {a - pos : a \in {x \in DOMAIN mem : pos <= x /\ x < pos + len}}
                |-> mem[pos + i]]]

BytesGet(b, i) == IF i \in DOMAIN b.nz THEN b.nz[i] ELSE 0

\* b == data, for a bytes object read from memory and an encoded value.
BytesEqual(b, data) ==
    b.len = Len(data) /\ \A k \in DOMAIN data : BytesGet(b, k - 1) = data[k]

\* mem.seek(pos); mem.read(n) on the unbuffered file: the bytes up to the
\* first unmapped page; at an unmapped address the read raises or is empty.
mem_read(pos, n) ==
    LET len == ReadableLen(pos, n)
    IN  IF len = 0
        THEN [ok |-> readFault # "raise", data |-> BytesOfMem(pos, 0)]
        ELSE [ok |-> TRUE, data |-> BytesOfMem(pos, len)]

\* The target's memory after data is stored at pos (zero bytes are not kept).
Stored(m, pos, data) ==
    LET touched == {pos + i - 1 : i \in DOMAIN data}
        byte(a) == IF a \in touched THEN data[a - pos + 1] ELSE m[a]
        keep == {a \in DOMAIN m \cup touched : byte(a) # 0}
    IN  [a \in keep |-> byte(a)]

\* mem.seek(pos); mem.write(data): raises at an unmapped address, otherwise
\* stores the bytes that lie before the first unmapped page.
mem_write(pos, data) ==
    LET len == ReadableLen(pos, Len(data))
    IN  IF ~alive \/ len = 0
        THEN [ok |-> FALSE, mem |-> mem]
        ELSE [ok |-> TRUE, mem |-> Stored(mem, pos, SubSeq(data, 1, len))]

-----------------------------------------------------------------------------
(* initial_scan *)

chunk_size == 4096

MinOf(S) == CHOOSE x \in S : \A y \in S : x <= y

\* chunk.find(sub, offset): the least index >= offset where sub occurs, or -1.
\* An occurrence of a sub with a non-zero byte covers a non-zero byte of the
\* chunk, so only the indexes up to Len(sub) - 1 before one are tried.
BytesFind(chunk, sub, offset) ==
    LET tried == IF \E k \in DOMAIN sub : sub[k] # 0
                 THEN {j - k : j \in DOMAIN chunk.nz, k \in 0..(Len(sub) - 1)}
                 ELSE offset..(chunk.len - Len(sub))
        hits == {i \in tried :
                    /\ offset <= i /\ i + Len(sub) <= chunk.len
                    /\ \A k \in DOMAIN sub : BytesGet(chunk, i + k - 1) = sub[k]}
    IN  IF hits = {} THEN -1 ELSE MinOf(hits)

\* A plausible slip: the search resumes after the whole match.
RECURSIVE SearchChunkSkipMatch(_, _, _, _)
SearchChunkSkipMatch(chunk, search_bytes, current_pos, offset) ==
    LET idx == BytesFind(chunk, search_bytes, offset)
    IN  IF idx = -1 THEN <<>>
        ELSE <<current_pos + idx>>
             \o SearchChunkSkipMatch(chunk, search_bytes, current_pos,
                                     idx + Len(search_bytes))

\* The inner "while True" loop: every match in the chunk, overlapping ones too.
RECURSIVE SearchChunk(_, _, _, _)
SearchChunk(chunk, search_bytes, current_pos, offset) ==
    LET idx == BytesFind(chunk, search_bytes, offset)
    IN  IF idx = -1 THEN <<>>
        ELSE <<current_pos + idx>>
             \o SearchChunk(chunk, search_bytes, current_pos, idx + 1)

\* A plausible slip: a failed read skips the window, not the rest of the region.
RECURSIVE ScanRegionSkipWindow(_, _, _)
ScanRegionSkipWindow(region, search_bytes, offset_in_region) ==
    LET region_size == region.end - region.start
        current_pos == region.start + offset_in_region
        read_size == Min(chunk_size, region_size - offset_in_region)
        got == mem_read(current_pos, read_size)
    IN  IF ~(offset_in_region < region_size) THEN <<>>
        ELSE (IF ~got.ok \/ got.data.len = 0 THEN <<>>
              ELSE SearchChunk(got.data, search_bytes, current_pos, 0))
             \o ScanRegionSkipWindow(region, search_bytes, offset_in_region + read_size)

\* The "while offset_in_region < region_size" loop of one region; a read that
\* raises or returns nothing breaks out of it.
RECURSIVE ScanRegion(_, _, _)
ScanRegion(region, search_bytes, offset_in_region) ==
    LET region_size == region.end - region.start
        current_pos == region.start + offset_in_region
        remaining == region_size - offset_in_region
        read_size == Min(chunk_size, remaining)
        got == mem_read(current_pos, read_size)
    IN  IF ~(offset_in_region < region_size) THEN <<>>
        ELSE IF ~got.ok \/ got.data.len = 0 THEN <<>>
        ELSE SearchChunk(got.data, search_bytes, current_pos, 0)
             \o ScanRegion(region, search_bytes, offset_in_region + read_size)

\* The "for start, end, perms in regions" loop.
RECURSIVE ScanRegions(_, _)
ScanRegions(regs, search_bytes) ==
    IF regs = <<>> THEN <<>>
    ELSE ScanRegion(Head(regs), search_bytes, 0)
         \o ScanRegions(Tail(regs), search_bytes)

\* initial_scan(pid, search_val, regions): "raise" when struct.pack does,
\* "exit" when the memory file cannot be opened, else the matches.
initial_scan(search_val, regs) ==
    LET packed == struct_pack(search_val)
    IN  IF ~packed.ok THEN [ret |-> "raise", matches |-> <<>>]
        ELSE IF ~alive THEN [ret |-> "exit", matches |-> <<>>]
        ELSE [ret |-> "return", matches |-> ScanRegions(regs, packed.bytes)]

-----------------------------------------------------------------------------
(* refine_scan *)

\* A plausible slip: a short read is compared on its own length.
RECURSIVE RefineLoopPrefix(_, _)
RefineLoopPrefix(cands, new_bytes) ==
    IF cands = <<>> THEN <<>>
    ELSE LET got == mem_read(Head(cands), 4)
         IN  (IF got.ok /\ BytesEqual(got.data, SubSeq(new_bytes, 1, got.data.len))
              THEN <<Head(cands)>> ELSE <<>>)
             \o RefineLoopPrefix(Tail(cands), new_bytes)

\* The "for addr in candidates" loop: addr is kept when the 4 bytes read at
\* it equal new_bytes; a read that raises drops it.
RECURSIVE RefineLoop(_, _)
RefineLoop(cands, new_bytes) ==
    IF cands = <<>> THEN <<>>
    ELSE LET got == mem_read(Head(cands), 4)
         IN  (IF got.ok /\ BytesEqual(got.data, new_bytes) THEN <<Head(cands)>> ELSE <<>>)
             \o RefineLoop(Tail(cands), new_bytes)

\* A plausible slip: the loop starts at the second candidate.
refine_scan_skip_first(cands, new_val) ==
    LET packed == struct_pack(new_val)
    IN  IF ~packed.ok THEN [ret |-> "raise", refined |-> <<>>]
        ELSE IF ~alive THEN [ret |-> "exit", refined |-> <<>>]
        ELSE [ret |-> "return",
              refined |-> IF cands = <<>> THEN <<>>
                          ELSE RefineLoop(Tail(cands), packed.bytes)]

\* refine_scan(pid, candidates, new_val)
refine_scan(cands, new_val) ==
    LET packed == struct_pack(new_val)
    IN  IF ~packed.ok THEN [ret |-> "raise", refined |-> <<>>]
        ELSE IF ~alive THEN [ret |-> "exit", refined |-> <<>>]
        ELSE [ret |-> "return", refined |-> RefineLoop(cands, packed.bytes)]

-----------------------------------------------------------------------------
(* modify_memory *)

\* A plausible slip: the filter forgets the 'w' test.
InWritableRegionAnyPerms(addr, regs) ==
    \E i \in DOMAIN regs : regs[i].start <= addr /\ addr < regs[i].end

\* "for start, end, perms in current_regions: if start <= addr < end and 'w'
\* in perms": addr passes the filter.
InWritableRegion(addr, regs) ==
    \E i \in DOMAIN regs :
        regs[i].start <= addr /\ addr < regs[i].end /\ HasFlag("w", regs[i].perms)

RECURSIVE FilterAddrs(_, _, _)
\* The filter loop: the addresses that pass (keep = TRUE), or the addresses
\* printed as skipped (keep = FALSE), in the order of the list.
FilterAddrs(addresses, regs, keep) ==
    IF addresses = <<>> THEN <<>>
    ELSE (IF InWritableRegion(Head(addresses), regs) = keep
          THEN <<Head(addresses)>> ELSE <<>>)
         \o FilterAddrs(Tail(addresses), regs, keep)

\* The locals of modify_memory once the filter loop has run.
ModifyLocals(addresses, new_bytes, regs) ==
    [new_bytes |-> new_bytes, current_regions |-> regs, addresses |-> addresses,
     writable_addrs |-> FilterAddrs(addresses, regs, TRUE), next |-> 1,
     success_count |-> 0, skipped |-> FilterAddrs(addresses, regs, FALSE),
     attempts |-> <<>>]

\* A plausible slip: the except clause is around the loop, so the first
\* failed write ends it.
AfterWriteStopOnFailure(m, ok) ==
    [m EXCEPT !.next = IF ok THEN @ + 1 ELSE Len(m.writable_addrs) + 1,
              !.success_count = IF ok THEN @ + 1 ELSE @,
              !.attempts = Append(@, <<m.writable_addrs[m.next], ok>>)]

\* One pass of the write loop: the count goes up when the write did not
\* raise, and the loop goes on to the next address either way.
AfterWrite(m, ok) ==
    [m EXCEPT !.next = @ + 1,
              !.success_count = IF ok THEN @ + 1 ELSE @,
              !.attempts = Append(@, <<m.writable_addrs[m.next], ok>>)]

-----------------------------------------------------------------------------
(* freeze_address and freeze_memory.  Time is counted in ticks of 100 ms. *)

\* interval = 0.1 s: the sleep between two writes of a thread, in ticks.
Period == 1
\* t.join(timeout=1), in ticks.
JoinTimeout == 10

\* "while not stop_event.is_set()": the thread leaves, or goes on to open the
\* memory file and write.
AfterLoopTest(stop_is_set) == IF stop_is_set THEN "done" ELSE "open"

\* After the write, failed (the except clause prints) or not: time.sleep(interval).
AfterFreezeWrite(ok) == "sleep"

\* A plausible slip: t.join() without a timeout.
JoinExpiredNever(left) == FALSE

\* t.join(timeout=1) gives up when the timeout has run out.
JoinExpired(left) == left = 0

\* A thread as threading.Thread(target=freeze_address, ...).start() leaves it,
\* with the arguments it was given; call tells which call of freeze_memory,
\* hence which stop event, it belongs to; failed records that a write of its
\* has failed.
NewThread(addr, new_bytes, call) ==
    [addr |-> addr, new_bytes |-> new_bytes, call |-> call, at |-> "test",
     sleep_left |-> 0, failed |-> FALSE]

\* daemon=True: the threads still running when the interpreter exits end
\* with it, wherever they are.
Killed(threads) ==
    [i \in DOMAIN threads |->
        IF threads[i].at = "done" THEN threads[i]
        ELSE [threads[i] EXCEPT !.at = "killed"]]

-----------------------------------------------------------------------------
(* Inputs *)

\* Search, refinement and write values: 1, 0x01010101, -1.
InRangeVals == {IntVal(0, 1), IntVal(257, 257), IntVal(-1, Limb - 1)}

\* 2**31 and -2**31 - 1.
OutOfRangeVals == {IntVal(2 ^ 15, 0), IntVal(-(2 ^ 15) - 1, Limb - 1)}

\* Where the target keeps values: around the boundary of the first two read
\* windows of 0x1000..0x3fff (0x1ffc, 0x1ffe, 0x2000, 0x2001), in its third
\* window, and in 0x5000..0x5fff.
StoreAddrs == {8188, 8190, 8192, 8193, 12288, 20480}
StoreVals == {IntVal(0, 1), IntVal(257, 257)}

MaxPlaced == 2

RECURSIVE ApplyStores(_)
\* The memory after the target has stored the values of s, in order, into
\* zero-filled pages.
ApplyStores(s) ==
    IF s = <<>> THEN [a \in {} |-> 0]
    ELSE Stored(ApplyStores(SubSeq(s, 1, Len(s) - 1)), s[Len(s)][1],
                struct_pack(s[Len(s)][2]).bytes)

Images ==
    {ApplyStores(s) : s \in UNION {[1..n -> StoreAddrs \X StoreVals] : n \in 0..MaxPlaced}}

Layout(p1, p2, p3, p5) == (1 :> p1) @@ (2 :> p2) @@ (3 :> p3) @@ (5 :> p5)

\* Address spaces the target may have.
Layouts ==
    { Layout(PermRW, PermRW, PermRW, PermRO),
      Layout(PermRW, Unmapped, PermRW, PermRO),
      Layout(PermRW, PermRO, PermRO, PermRW),
      Layout(PermRW, PermRW, PermRW, PermWO) }

\* The record of a step: the operation, its value, the address it touched,
\* the candidate list it was given, and whether the step before it was the
\* same operation with the same value.
NoOp == [op |-> "none", val |-> IntVal(0, 0), addr |-> 0, arg |-> <<>>, rep |-> FALSE]
Op(o, v, a, arg) ==
    [op |-> o, val |-> v, addr |-> a, arg |-> arg,
     rep |-> lastOp.op = o /\ lastOp.val = v]

\* The record of a step of freeze_memory or of the clock; of a thread's write
\* it also tells the address and the thread.
FreezeStep == [NoOp EXCEPT !.op = "freezing"]

NoMod == [new_bytes |-> <<>>, current_regions |-> <<>>, addresses |-> <<>>,
          writable_addrs |-> <<>>, next |-> 1, success_count |-> 0,
          skipped |-> <<>>, attempts |-> <<>>]
NoFz == [state |-> "idle", call |-> 0, stop_event |-> FALSE, first |-> 1, joining |-> 0,
         join_left |-> 0, since_stop |-> 0, abandoned |-> {}]

-----------------------------------------------------------------------------
(* initial_scan as a function of its inputs: the region list is one the     *)
(* target had when parse_maps ran, the address space the one it has now.    *)

InitScan ==
    /\ pages \in Layouts
    /\ mem \in Images
    /\ alive = TRUE
    /\ readFault \in {"raise", "empty"}
    /\ pc = "menu"
    /\ initial_val = IntVal(0, 0)
    /\ candidates = <<>>
    /\ \E before \in Layouts : regions = ReadableLines(MapsFrom(before, 0))
    /\ lastOp = NoOp
    /\ validated = IntVal(0, 0)
    /\ warned = FALSE
    /\ mod = NoMod
    /\ fz = NoFz
    /\ tasks = <<>>
    /\ budget = 0

\* initial_scan(pid, v, regions) is called.
ScanCall(v) ==
    LET r == initial_scan(v, regions)
    IN  /\ lastOp.op = "none"
        /\ IF r.ret = "return"
           THEN /\ candidates' = r.matches
                /\ validated' = v
                /\ lastOp' = Op("scan", v, 0, <<>>)
                /\ pc' = pc
           ELSE /\ pc' = "crash"
                /\ lastOp' = Op("crash", v, 0, <<>>)
                /\ UNCHANGED <<candidates, validated>>
        /\ UNCHANGED <<targetVars, initial_val, regions, warned, mod, fz, tasks, budget>>

NextScan == \E v \in InRangeVals \cup OutOfRangeVals : ScanCall(v)

SpecScan == InitScan /\ [][NextScan]_vars

-----------------------------------------------------------------------------
(* What a scan should find *)

SeqToSet(s) == {s[i] : i \in DOMAIN s}

Occurs(a, pat) == \A k \in DOMAIN pat : ByteAt(a + k - 1) = pat[k]

\* Every occurrence of a pattern that has a non-zero byte starts at most three
\* bytes before a non-zero byte of memory.
NearData == {d - k : d \in DOMAIN mem, k \in 0..3}

InRegion(a, r) == r.start <= a /\ a + 4 <= r.end

\* The number of the read window of region r that holds address a.
WindowOf(a, r) == (a - r.start) \div chunk_size
InOneWindow(a, r) == WindowOf(a, r) = WindowOf(a + 3, r)

WindowCount(r) == (r.end - r.start + chunk_size - 1) \div chunk_size
WindowReadSize(r, w) == Min(chunk_size, r.end - r.start - w * chunk_size)
\* The read of window w of region r returns all the bytes asked for.
ReadInFull(r, w) ==
    ReadableLen(r.start + w * chunk_size, WindowReadSize(r, w)) = WindowReadSize(r, w)
\* The read of window w of region r raises or returns no bytes.
ReadFails(r, w) == ReadableLen(r.start + w * chunk_size, WindowReadSize(r, w)) = 0

AllReadsInFull ==
    \A i \in DOMAIN regions : \A w \in 0..(WindowCount(regions[i]) - 1) :
        ReadInFull(regions[i], w)

ScanReturned == lastOp.op = "scan"
ScanPattern == struct_pack(lastOp.val).bytes

\* C1 as claimed: with every read succeeding in full, initial_scan returns
\* exactly the addresses a of a supplied region [start, end) with a + 4 <= end
\* where the four bytes are the value's encoding, wherever a lies relative to
\* the read windows.
C1_AllOccurrences ==
    (ScanReturned /\ AllReadsInFull) =>
        SeqToSet(candidates) =
            {a \in NearData : /\ \E i \in DOMAIN regions : InRegion(a, regions[i])
                              /\ Occurs(a, ScanPattern)}

\* C1 amended: with every read succeeding in full, initial_scan returns exactly
\* the addresses a of a supplied region with a + 4 <= end where the four bytes
\* are the value's encoding and lie within one 4096-byte read window of the
\* region; overlapping occurrences at a and a + 1 are both reported.
C1_OccurrencesWithinWindow ==
    (ScanReturned /\ AllReadsInFull) =>
        SeqToSet(candidates) =
            {a \in NearData : /\ \E i \in DOMAIN regions :
                                   InRegion(a, regions[i]) /\ InOneWindow(a, regions[i])
                              /\ Occurs(a, ScanPattern)}

\* A scan has reported two overlapping occurrences, one of them ending at a
\* window's last byte, while another occurrence straddles two windows.
C1_Witness ==
    /\ ScanReturned /\ AllReadsInFull
    /\ \E i \in DOMAIN candidates, j \in DOMAIN candidates :
          candidates[j] = candidates[i] + 1
    /\ \E a \in NearData, i \in DOMAIN regions :
          /\ InRegion(a, regions[i]) /\ Occurs(a, ScanPattern)
          /\ ~InOneWindow(a, regions[i])

\* Every read of the scan either returned all its bytes or failed.
NoShortRead ==
    \A i \in DOMAIN regions : \A w \in 0..(WindowCount(regions[i]) - 1) :
        ReadInFull(regions[i], w) \/ ReadFails(regions[i], w)

\* C9 as claimed: a window whose read fails or returns no bytes is skipped and
\* the scan goes on, so the result holds every match that lies within a window
\* that can be read, also in the windows after the failed one of the same
\* region.
C9_EveryReadableWindowScanned ==
    ScanReturned =>
        \A a \in NearData : \A i \in DOMAIN regions :
            ( /\ InRegion(a, regions[i]) /\ InOneWindow(a, regions[i])
              /\ Occurs(a, ScanPattern)
              /\ ReadInFull(regions[i], WindowOf(a, regions[i])) )
            => a \in SeqToSet(candidates)

\* C9 amended: a window whose read fails or returns no bytes ends the scan of
\* its region only: the result holds exactly the matches that lie within a
\* window of a supplied region with no failed read at or before that window in
\* the same region, whatever happened in the other regions.
C9_FailedReadEndsRegionOnly ==
    (ScanReturned /\ NoShortRead) =>
        SeqToSet(candidates) =
            {a \in NearData :
                /\ Occurs(a, ScanPattern)
                /\ \E i \in DOMAIN regions :
                      /\ InRegion(a, regions[i]) /\ InOneWindow(a, regions[i])
                      /\ \A w \in 0..WindowOf(a, regions[i]) : ReadInFull(regions[i], w)}

\* A scan met a failed read in a region, and reported a match from an earlier
\* window of that region and a match from a later region.
C9_Witness ==
    /\ ScanReturned
    /\ \E i \in DOMAIN regions, j \in DOMAIN regions :
          /\ i < j
          /\ \E w \in 1..(WindowCount(regions[i]) - 1) :
                /\ ReadFails(regions[i], w)
                /\ \E c \in DOMAIN candidates :
                      /\ InRegion(candidates[c], regions[i])
                      /\ WindowOf(candidates[c], regions[i]) < w
          /\ \E c \in DOMAIN candidates : InRegion(candidates[c], regions[j])

-----------------------------------------------------------------------------
(* refine_scan as a function of its inputs *)

MaxCands == 3

\* Candidates to refine: addresses before, across and after the boundary of
\* the pages 0x1000 and 0x2000.
CandAddrs == {8188, 8190, 8192, 8193}
RefineStoreAddrs == {8188, 8190, 8193}

RefineImages ==
    {ApplyStores(s) :
        s \in UNION {[1..n -> RefineStoreAddrs \X StoreVals] : n \in 0..MaxPlaced}}

InitRefine ==
    /\ pages \in {Layout(PermRW, PermRW, PermRW, PermRO),
                  Layout(PermRW, Unmapped, PermRW, PermRO)}
    /\ mem \in RefineImages
    /\ alive = TRUE
    /\ readFault \in {"raise", "empty"}
    /\ pc = "menu"
    /\ initial_val = IntVal(0, 0)
    /\ candidates \in UNION {[1..n -> CandAddrs] : n \in 0..MaxCands}
    /\ regions = <<>>
    /\ lastOp = NoOp
    /\ validated = IntVal(0, 0)
    /\ warned = FALSE
    /\ mod = NoMod
    /\ fz = NoFz
    /\ tasks = <<>>
    /\ budget = 0

\* refine_scan(pid, candidates, v) is called and its result kept.
RefineCall(v) ==
    LET r == refine_scan(candidates, v)
    IN  /\ pc = "menu"
        /\ IF r.ret = "return"
           THEN /\ candidates' = r.refined
                /\ validated' = v
                /\ lastOp' = Op("refine", v, 0, candidates)
                /\ pc' = pc
           ELSE /\ pc' = "crash"
                /\ lastOp' = Op("crash", v, 0, candidates)
                /\ UNCHANGED <<candidates, validated>>
        /\ UNCHANGED <<targetVars, initial_val, regions, warned, mod, fz, tasks, budget>>

NextRefine == \E v \in InRangeVals \cup OutOfRangeVals : RefineCall(v)

SpecRefine == InitRefine /\ [][NextRefine]_vars

RefineReturned == lastOp.op = "refine"
RefinePattern == struct_pack(lastOp.val).bytes

\* The four bytes at a can be read and are the refinement value's encoding.
HoldsRefineValue(a) == ReadableLen(a, 4) = 4 /\ Occurs(a, RefinePattern)

\* C4: refine_scan returns a subsequence of its input: the input's addresses
\* that hold the new value's encoding in four readable bytes, in the input's
\* order and with the input's multiplicity, and no other address; a candidate
\* whose read fails or is short is dropped.
C4_RefineKeepsExactlyTheMatches ==
    RefineReturned => candidates = SelectSeq(lastOp.arg, HoldsRefineValue)

\* A refinement kept a candidate, and dropped one whose read failed and one
\* whose read was short.
C4_Witness ==
    /\ RefineReturned
    /\ candidates # <<>>
    /\ \E i \in DOMAIN lastOp.arg : ReadableLen(lastOp.arg[i], 4) = 0
    /\ \E i \in DOMAIN lastOp.arg : ReadableLen(lastOp.arg[i], 4) \in 1..3

\* C5: refining twice in a row against the same value, with the target
\* unchanged in between, gives the list the first refinement gave.
C5_RefineIdempotent ==
    (RefineReturned /\ lastOp.rep) => candidates = lastOp.arg

\* A second refinement in a row against the same value has returned a list
\* that is not empty.
C5_Witness ==
    RefineReturned /\ lastOp.rep /\ candidates # <<>>

-----------------------------------------------------------------------------
(* The session: main() and the target process beside it *)

MaxStores == 1
MaxRemaps == 1
MaxFreezes == 1

\* The values of the session, 0x01010101 and 0x02020202, and where the target
\* keeps them: in a page of a first region and in the page of a second one.
SessionVals == {IntVal(257, 257), IntVal(514, 514)}
SessionAddrs == {8188, 20480}
SessionPages == {PageOf(a) : a \in SessionAddrs}

\* What the operator may type at a value prompt: a value, 2**31, or no number.
Inputs ==
    {Numeral(v) : v \in SessionVals \cup {IntVal(2 ^ 15, 0)}} \cup {NotANumeral}

Init ==
    /\ pages \in {Layout(PermRW, PermRW, PermRW, PermRO),
                  Layout(PermRW, PermRW, PermRW, PermRW)}
    /\ mem = ApplyStores(<< <<8188, IntVal(257, 257)>>, <<20480, IntVal(257, 257)>> >>)
    /\ alive = TRUE
    /\ readFault = "raise"
    /\ pc = "start"
    /\ initial_val = IntVal(0, 0)
    /\ candidates = <<>>
    /\ regions = <<>>
    /\ lastOp = NoOp
    /\ validated = IntVal(0, 0)
    /\ warned = FALSE
    /\ mod = NoMod
    /\ fz = NoFz
    /\ tasks = <<>>
    /\ budget = [stores |-> MaxStores, remaps |-> MaxRemaps, freezes |-> 0]

\* sys.exit(1), or an exception nothing catches.
Ends(how, v) ==
    /\ pc' = how
    /\ lastOp' = Op(how, v, 0, <<>>)

\* refresh_regions() followed by initial_scan(pid, v, regions), as the initial
\* search and new_search() run them; v is already in initial_val.
SearchFor(v) ==
    LET fresh == refresh_regions
        r == initial_scan(v, fresh.regions)
    IN  IF ~fresh.ok
        THEN Ends("exit1", v) /\ UNCHANGED <<candidates, regions, validated>>
        ELSE /\ regions' = fresh.regions
             /\ IF r.ret = "return"
                THEN /\ candidates' = r.matches
                     /\ validated' = v
                     /\ pc' = "menu"
                     /\ lastOp' = Op("scan", v, 0, <<>>)
                ELSE /\ Ends(IF r.ret = "raise" THEN "crash" ELSE "exit1", v)
                     /\ UNCHANGED <<candidates, validated>>

\* main() up to its loop: the value argument is validated and the initial
\* search made.
InitialSearch(input) ==
    LET checked == validate_integer(input)
    IN  /\ pc = "start"
        /\ warned' = checked.warning
        /\ mod' = NoMod
        /\ IF ~checked.ok
           THEN /\ Ends("exit1", checked.val)
                /\ UNCHANGED <<initial_val, candidates, regions, validated>>
           ELSE /\ initial_val' = checked.val
                /\ SearchFor(checked.val)
        /\ UNCHANGED <<targetVars, fz, tasks, budget>>

\* Choice 'n': new_search().  (An interrupt at its prompt returns to the menu
\* with nothing changed.)
NewSearch(input) ==
    LET checked == validate_integer(input)
    IN  /\ pc = "menu"
        /\ warned' = checked.warning
        /\ mod' = NoMod
        /\ IF ~checked.ok
           THEN /\ Ends("exit1", checked.val)
                /\ UNCHANGED <<initial_val, candidates, regions, validated>>
           ELSE /\ initial_val' = IF refresh_regions.ok THEN checked.val ELSE initial_val
                /\ SearchFor(checked.val)
        /\ UNCHANGED <<targetVars, fz, tasks, budget>>

\* Choice 'r' with candidates: refine_scan replaces the candidates.
Refine(input) ==
    LET checked == validate_integer(input)
        r == refine_scan(candidates, checked.val)
    IN  /\ pc = "menu"
        /\ candidates # <<>>
        /\ warned' = checked.warning
        /\ mod' = NoMod
        /\ IF ~checked.ok
           THEN Ends("exit1", checked.val) /\ UNCHANGED <<candidates, validated>>
           ELSE IF r.ret = "return"
           THEN /\ candidates' = r.refined
                /\ validated' = checked.val
                /\ pc' = "menu"
                /\ lastOp' = Op("refine", checked.val, 0, candidates)
           ELSE /\ Ends(IF r.ret = "raise" THEN "crash" ELSE "exit1", checked.val)
                /\ UNCHANGED <<candidates, validated>>
        /\ UNCHANGED <<targetVars, initial_val, regions, fz, tasks, budget>>

\* Choice 'm' with candidates: modify_memory up to its write loop: the value
\* is encoded, the region map read again and the addresses filtered.
ModifyBegin(input) ==
    LET checked == validate_integer(input)
        packed == struct_pack(checked.val)
        fresh == parse_maps
    IN  /\ pc = "menu"
        /\ candidates # <<>>
        /\ warned' = checked.warning
        /\ IF ~checked.ok \/ ~packed.ok \/ ~fresh.ok
           THEN /\ Ends(IF checked.ok /\ ~packed.ok THEN "crash" ELSE "exit1", checked.val)
                /\ mod' = NoMod
           ELSE /\ mod' = ModifyLocals(candidates, packed.bytes, fresh.regions)
                /\ pc' = "modify"
                /\ lastOp' = Op("filter", checked.val, 0, candidates)
        /\ UNCHANGED <<targetVars, initial_val, candidates, regions, validated,
                       fz, tasks, budget>>

\* One pass of the write loop.
ModifyWrite ==
    LET addr == mod.writable_addrs[mod.next]
        w == mem_write(addr, mod.new_bytes)
    IN  /\ pc = "modify"
        /\ mod.next <= Len(mod.writable_addrs)
        /\ mem' = w.mem
        /\ mod' = AfterWrite(mod, w.ok)
        /\ lastOp' = Op("write", IntVal(0, 0), addr, <<>>)
        /\ UNCHANGED <<pages, alive, readFault, sessionVars, fz, tasks, budget>>

\* modify_memory returns: 0 when nothing passed the filter, else the count
\* after the loop; main() then refreshes its regions.
ModifyReturn ==
    /\ pc = "modify"
    /\ mod.next > Len(mod.writable_addrs)
    /\ IF refresh_regions.ok
       THEN /\ regions' = refresh_regions.regions
            /\ pc' = "menu"
            /\ lastOp' = Op("modified", IntVal(0, 0), mod.success_count, <<>>)
       ELSE Ends("exit1", IntVal(0, 0)) /\ UNCHANGED regions
    /\ UNCHANGED <<targetVars, initial_val, candidates, validated, warned, mod,
                   fz, tasks, budget>>

\* Choice 'q'.
Quit ==
    /\ pc = "menu"
    /\ pc' = "quit"
    /\ lastOp' = Op("quit", IntVal(0, 0), 0, <<>>)
    /\ UNCHANGED <<targetVars, initial_val, candidates, regions, validated, warned,
                   mod, fz, tasks, budget>>

Running == pc \in {"start", "menu", "modify", "freeze", "refresh"}

\* The target stores a value into a page it may write.
TargetStore(a, v) ==
    /\ Running /\ alive
    /\ budget.stores > 0
    /\ \A k \in 0..3 : Mapped(PageOf(a + k)) /\ HasFlag("w", pages[PageOf(a + k)])
    /\ mem' = Stored(mem, a, struct_pack(v).bytes)
    /\ mem' # mem
    /\ budget' = [budget EXCEPT !.stores = @ - 1]
    /\ lastOp' = Op("target", IntVal(0, 0), 0, <<>>)
    /\ UNCHANGED <<pages, alive, readFault, sessionVars, mod, fz, tasks>>

\* The target changes a page's permissions (mprotect).
TargetProtect(p, perms) ==
    /\ Running /\ alive
    /\ budget.remaps > 0
    /\ Mapped(p) /\ pages[p] # perms
    /\ pages' = [pages EXCEPT ![p] = perms]
    /\ budget' = [budget EXCEPT !.remaps = @ - 1]
    /\ lastOp' = Op("target", IntVal(0, 0), 0, <<>>)
    /\ UNCHANGED <<mem, alive, readFault, sessionVars, mod, fz, tasks>>

\* The target unmaps a page (munmap); its contents are gone.
TargetUnmap(p) ==
    /\ Running /\ alive
    /\ budget.remaps > 0
    /\ Mapped(p)
    /\ pages' = [pages EXCEPT ![p] = Unmapped]
    /\ mem' = [a \in {x \in DOMAIN mem : PageOf(x) # p} |-> mem[a]]
    /\ budget' = [budget EXCEPT !.remaps = @ - 1]
    /\ lastOp' = Op("target", IntVal(0, 0), 0, <<>>)
    /\ UNCHANGED <<alive, readFault, sessionVars, mod, fz, tasks>>

\* The target exits: /proc/<pid> is gone.
TargetExit ==
    /\ Running /\ alive
    /\ alive' = FALSE
    /\ lastOp' = Op("target", IntVal(0, 0), 0, <<>>)
    /\ UNCHANGED <<pages, mem, readFault, sessionVars, mod, fz, tasks, budget>>

Target ==
    \/ \E a \in SessionAddrs, v \in SessionVals : TargetStore(a, v)
    \/ \E p \in SessionPages, perms \in {PermRW, PermRO, PermWO} : TargetProtect(p, perms)
    \/ \E p \in SessionPages : TargetUnmap(p)
    \/ TargetExit

\* The session without choice 'f', which SpecFreeze follows.
Next ==
    \/ \E input \in Inputs : InitialSearch(input)
    \/ \E input \in Inputs : NewSearch(input)
    \/ \E input \in Inputs : Refine(input)
    \/ \E input \in Inputs : ModifyBegin(input)
    \/ ModifyWrite
    \/ ModifyReturn
    \/ Quit
    \/ Target

Spec == Init /\ [][Next]_vars

-----------------------------------------------------------------------------
(* What the session should do *)

\* Address a lies in a region of the list regs that is flagged writable.
FlaggedWritable(a, regs) ==
    \E r \in SeqToSet(regs) : r.start <= a /\ a < r.end /\ "w" \in SeqToSet(r.perms)

\* Address a lies, at this moment, in a mapping of the target with flag c.
FlaggedNow(a, c) == Mapped(PageOf(a)) /\ c \in SeqToSet(pages[PageOf(a)])

AttemptedAddrs == [i \in DOMAIN mod.attempts |-> mod.attempts[i][1]]
Succeeded == {i \in DOMAIN mod.attempts : mod.attempts[i][2]}

\* C2 as claimed: every write modify_memory issues goes to an address that is
\* in a region flagged writable at the moment of the write, also when the
\* target changes its permissions after the region map was read again; an
\* address in a region that is not writable is reported skipped and not written.
C2_WritableAtWriteTime ==
    /\ lastOp.op = "write" => FlaggedNow(lastOp.addr, "w")
    /\ \A a \in SeqToSet(mod.addresses) :
          ~FlaggedWritable(a, mod.current_regions)
          => a \in SeqToSet(mod.skipped) /\ a \notin SeqToSet(AttemptedAddrs)

\* C2 amended: every write modify_memory issues goes to an address that was
\* in a region flagged writable when the call read the region map again (the
\* target may have changed the permissions by the time of the write); an
\* address that this map puts in no writable region is reported skipped and is
\* not written by the call.
C2_WritableInRereadMap ==
    /\ lastOp.op = "filter" =>
          \A a \in SeqToSet(mod.writable_addrs) : FlaggedNow(a, "w")
    /\ lastOp.op = "write" => FlaggedWritable(lastOp.addr, mod.current_regions)
    /\ \A a \in SeqToSet(mod.addresses) :
          ~FlaggedWritable(a, mod.current_regions)
          => a \in SeqToSet(mod.skipped) /\ a \notin SeqToSet(AttemptedAddrs)

\* A write has been issued by a call that skipped another address.
C2_Witness ==
    /\ lastOp.op = "write"
    /\ mod.skipped # <<>>
    /\ \E a \in SeqToSet(mod.skipped) : FlaggedNow(a, "r") /\ ~FlaggedNow(a, "w")

C7_CandidatesHoldTrackedValue ==
    (pc \in {"menu", "modify"} /\ candidates # <<>>) => validated = initial_val

\* C8 as claimed: modify_memory attempts a write at every address of its list
\* that the region map, read again during the call, puts in a region with
\* write permission, whatever the region's other permissions; a failed write
\* does not stop the later ones; the count returned is the number of writes
\* that succeeded.
C8_EveryWritableAddressAttempted ==
    /\ lastOp.op = "filter" =>
          mod.writable_addrs = SelectSeq(mod.addresses, LAMBDA a : FlaggedNow(a, "w"))
    /\ lastOp.op = "modified" =>
          /\ AttemptedAddrs = mod.writable_addrs
          /\ lastOp.addr = Cardinality(Succeeded)

\* C8 amended: modify_memory attempts a write at every address of its list
\* that the region map, read again during the call, puts in a region with both
\* read and write permission (parse_maps drops the regions without read
\* permission); a failed write does not stop the later ones; the count
\* returned is the number of write calls that did not raise.
C8_EveryReadWriteAddressAttempted ==
    /\ lastOp.op = "filter" =>
          mod.writable_addrs =
              SelectSeq(mod.addresses, LAMBDA a : FlaggedNow(a, "w") /\ FlaggedNow(a, "r"))
    /\ lastOp.op = "modified" =>
          /\ AttemptedAddrs = mod.writable_addrs
          /\ lastOp.addr = Cardinality(Succeeded)

\* modify_memory has returned 1 after a failed write followed by a write that
\* succeeded.
C8_Witness ==
    /\ lastOp.op = "modified" /\ lastOp.addr = 1
    /\ \E i \in DOMAIN mod.attempts, j \in DOMAIN mod.attempts :
          i < j /\ ~mod.attempts[i][2] /\ mod.attempts[j][2]

-----------------------------------------------------------------------------
(* Freezing: freeze_memory, its threads, the clock and the target *)

Threads == DOMAIN tasks

\* Choice 'f' with candidates: freeze_memory encodes the value and starts one
\* thread per address, then sleeps until the operator interrupts it.
FreezeBegin(input) ==
    LET checked == validate_integer(input)
        packed == struct_pack(checked.val)
    IN  /\ pc = "menu"
        /\ candidates # <<>>
        /\ budget.freezes > 0
        /\ budget' = [budget EXCEPT !.freezes = @ - 1]
        /\ warned' = checked.warning
        /\ mod' = NoMod
        /\ IF ~checked.ok \/ ~packed.ok
           THEN /\ Ends(IF checked.ok THEN "crash" ELSE "exit1", checked.val)
                /\ tasks' = Killed(tasks)
                /\ UNCHANGED fz
           ELSE /\ fz' = [NoFz EXCEPT !.state = "running", !.call = fz.call + 1,
                                      !.first = Len(tasks) + 1]
                /\ tasks' = tasks \o [i \in DOMAIN candidates |->
                                        NewThread(candidates[i], packed.bytes, fz.call + 1)]
                /\ pc' = "freeze"
                /\ lastOp' = FreezeStep
        /\ UNCHANGED <<targetVars, initial_val, candidates, regions, validated>>

\* stop_event.is_set(), for the event thread i was given.
StopIsSet(i) == tasks[i].call < fz.call \/ fz.stop_event

\* Thread i, just started, tests the stop event.
ThreadTest(i) ==
    /\ i \in Threads
    /\ tasks[i].at = "test"
    /\ tasks' = [tasks EXCEPT ![i].at = AfterLoopTest(StopIsSet(i))]
    /\ lastOp' = FreezeStep
    /\ UNCHANGED <<targetVars, sessionVars, mod, fz, budget>>

\* Thread i, having opened the memory file (which may take any time), seeks
\* and writes; a failure is printed.
ThreadWrite(i) ==
    LET w == mem_write(tasks[i].addr, tasks[i].new_bytes)
    IN  /\ i \in Threads
        /\ tasks[i].at = "open"
        /\ mem' = w.mem
        /\ tasks' = [tasks EXCEPT
                        ![i].at = AfterFreezeWrite(w.ok),
                        ![i].sleep_left = Period,
                        ![i].failed = @ \/ ~w.ok]
        /\ lastOp' = [FreezeStep EXCEPT !.op = "fwrite", !.addr = tasks[i].addr, !.arg = <<i>>]
        /\ UNCHANGED <<pages, alive, readFault, sessionVars, mod, fz, budget>>

\* Thread i's sleep is over: it tests the stop event again.
ThreadWake(i) ==
    /\ i \in Threads
    /\ tasks[i].at = "sleep" /\ tasks[i].sleep_left = 0
    /\ tasks' = [tasks EXCEPT ![i].at = AfterLoopTest(StopIsSet(i))]
    /\ lastOp' = FreezeStep
    /\ UNCHANGED <<targetVars, sessionVars, mod, fz, budget>>

\* The operator's Ctrl+C reaches freeze_memory in its sleep loop: the stop
\* event is set and the first join begins.
Interrupt ==
    /\ pc = "freeze" /\ fz.state = "running"
    /\ fz' = [fz EXCEPT !.state = "stopping", !.stop_event = TRUE,
                        !.joining = fz.first, !.join_left = JoinTimeout]
    /\ lastOp' = FreezeStep
    /\ UNCHANGED <<targetVars, sessionVars, mod, tasks, budget>>

\* freeze_memory after the join of thread fz.joining has returned.
AfterJoin(abandon) ==
    IF fz.joining < Len(tasks)
    THEN [fz EXCEPT !.joining = @ + 1, !.join_left = JoinTimeout,
                    !.abandoned = @ \cup abandon]
    ELSE [fz EXCEPT !.state = "stopped", !.joining = 0, !.join_left = 0,
                    !.abandoned = @ \cup abandon]

\* The thread being joined has ended: the join returns.
JoinEnds ==
    /\ fz.state = "stopping"
    /\ tasks[fz.joining].at = "done"
    /\ fz' = AfterJoin({})
    /\ lastOp' = FreezeStep
    /\ UNCHANGED <<targetVars, sessionVars, mod, tasks, budget>>

\* The join's timeout runs out: the thread is left behind.
JoinGivesUp ==
    /\ fz.state = "stopping"
    /\ tasks[fz.joining].at # "done"
    /\ JoinExpired(fz.join_left)
    /\ fz' = AfterJoin({fz.joining})
    /\ lastOp' = FreezeStep
    /\ UNCHANGED <<targetVars, sessionVars, mod, tasks, budget>>

\* freeze_memory prints "Freezing stopped." and returns.
FreezeReturn ==
    /\ pc = "freeze" /\ fz.state = "stopped"
    /\ pc' = "refresh"
    /\ lastOp' = FreezeStep
    /\ UNCHANGED <<targetVars, initial_val, candidates, regions, validated, warned,
                   mod, fz, tasks, budget>>

\* Back in main(), the regions are refreshed before the menu is shown again.
RefreshAfterFreeze ==
    /\ pc = "refresh"
    /\ IF refresh_regions.ok
       THEN /\ regions' = refresh_regions.regions
            /\ pc' = "menu"
            /\ lastOp' = FreezeStep
            /\ UNCHANGED tasks
       ELSE /\ Ends("exit1", IntVal(0, 0))
            /\ tasks' = Killed(tasks)
            /\ UNCHANGED regions
    /\ UNCHANGED <<targetVars, initial_val, candidates, validated, warned, mod,
                   fz, budget>>

\* Something must happen before time can pass: a thread is at its loop test
\* or has slept enough, or a join can return.
Urgent ==
    \/ \E i \in Threads : tasks[i].at = "test"
    \/ \E i \in Threads : tasks[i].at = "sleep" /\ tasks[i].sleep_left = 0
    \/ fz.state = "stopping" /\ tasks[fz.joining].at = "done"
    \/ fz.state = "stopping" /\ JoinExpired(fz.join_left)
    \/ pc = "freeze" /\ fz.state = "stopped"

\* 100 ms pass.
Tick ==
    /\ pc \in {"freeze", "refresh", "menu"} /\ tasks # <<>>
    /\ ~Urgent
    /\ tasks' = [i \in Threads |->
                    IF tasks[i].at = "sleep"
                    THEN [tasks[i] EXCEPT !.sleep_left = @ - 1] ELSE tasks[i]]
    /\ fz' = [fz EXCEPT
                !.join_left = IF fz.state = "stopping" /\ @ > 0 THEN @ - 1 ELSE @,
                !.since_stop = IF fz.stop_event
                               THEN Min(@ + 1, Period + JoinTimeout + 1) ELSE @]
    /\ lastOp' = FreezeStep
    /\ UNCHANGED <<targetVars, sessionVars, mod, budget>>

\* What the operator may type as the value to freeze.
FreezeInputs == {Numeral(IntVal(514, 514)), Numeral(IntVal(2 ^ 15, 0)), NotANumeral}

InitFreeze ==
    /\ pages = Layout(PermRW, PermRW, PermRW, PermRO)
    /\ mem = ApplyStores(<< <<8188, IntVal(257, 257)>>, <<20480, IntVal(257, 257)>> >>)
    /\ alive = TRUE
    /\ readFault = "raise"
    /\ pc = "menu"
    /\ initial_val = IntVal(257, 257)
    /\ candidates \in {<<8188>>, <<8188, 20480>>}
    /\ regions = ReadableLines(MapsFile)
    /\ lastOp = NoOp
    /\ validated = IntVal(257, 257)
    /\ warned = FALSE
    /\ mod = NoMod
    /\ fz = NoFz
    /\ tasks = <<>>
    /\ budget = [stores |-> 0, remaps |-> MaxRemaps, freezes |-> MaxFreezes]

NextFreeze ==
    \/ \E input \in FreezeInputs : FreezeBegin(input)
    \/ \E i \in Threads : ThreadTest(i)
    \/ \E i \in Threads : ThreadWrite(i)
    \/ \E i \in Threads : ThreadWake(i)
    \/ Interrupt
    \/ JoinEnds
    \/ JoinGivesUp
    \/ FreezeReturn
    \/ RefreshAfterFreeze
    \/ Tick
    \/ TargetUnmap(PageOf(8188))

SpecFreeze == InitFreeze /\ [][NextFreeze]_vars

\* The threads a session can have started.
ThreadIds == 1 .. (MaxFreezes * Cardinality(SessionAddrs))

\* The scheduler runs every thread that can run, sleeps and timeouts end, and
\* freeze_memory goes on when a join has returned.  A thread inside open() or
\* write() need never come back: no fairness for ThreadWrite.  The operator
\* need never press Ctrl+C: none for Interrupt.
SpecFreezeFair ==
    /\ SpecFreeze
    /\ WF_vars(Tick)
    /\ WF_vars(JoinEnds)
    /\ WF_vars(JoinGivesUp)
    /\ WF_vars(FreezeReturn)
    /\ \A i \in ThreadIds : WF_vars(ThreadTest(i)) /\ WF_vars(ThreadWake(i))

-----------------------------------------------------------------------------
(* Freezing: what is expected *)

\* The write just made by a thread of the current call of freeze_memory,
\* started after that call's stop event was set.
WriteAfterSignal ==
    /\ lastOp.op = "fwrite"
    /\ tasks[lastOp.arg[1]].call = fz.call
    /\ fz.stop_event

\* C3: once the stop event is set, no freeze thread starts a write later than
\* one period plus the join timeout after it, and once freeze_memory has
\* waited on every thread (abandoning those that did not end in time) no
\* freeze thread writes again.
C3_NoWriteAfterStopped ==
    WriteAfterSignal =>
        /\ fz.since_stop <= Period + JoinTimeout
        /\ fz.state # "stopped"

\* A thread between its writes: at the loop test or asleep.
BetweenWrites(i) == i \in Threads /\ tasks[i].at \in {"test", "sleep"}

\* Thread i has left its loop, or has ended with the interpreter.
Ended(i) == i \in Threads /\ tasks[i].at \in {"done", "killed"}

\* C10: once the stop event is set, freeze_memory returns, even if a thread
\* never ends; every thread whose write call has returned sees the event and
\* leaves its loop (unless the interpreter exits first, which ends it too);
\* and no thread leaves its loop before its stop event is set, whatever its
\* writes did.
C10_FreezeShutdownTerminates ==
    /\ (pc = "freeze" /\ fz.stop_event) ~> (pc # "freeze")
    /\ \A i \in ThreadIds :
          (BetweenWrites(i) /\ StopIsSet(i)) ~> Ended(i)
    /\ [](\A i \in Threads : tasks[i].at = "done" => StopIsSet(i))

\* freeze_memory has returned: one thread, whose write had failed, went on and
\* ended after the signal, the other was left behind inside open().
C10_Witness ==
    /\ pc = "menu" /\ fz.state = "stopped"
    /\ \E i \in Threads : tasks[i].at = "done" /\ tasks[i].failed
    /\ \E i \in fz.abandoned : tasks[i].at = "open"

====
